---- MODULE Spec2Model ----
(***************************************************************************)
(* Model of ProcessCollector.py (the live revision, lines 93-247): the     *)
(* Diamond collector whose collect() recompiles the process-group rules,   *)
(* enumerates the OS processes, files each under the first matching group  *)
(* and publishes a cpu and a ram metric per registered process.            *)
(*                                                                         *)
(* Text is a sequence of one-character strings.  A regular expression is   *)
(* a literal text, optionally anchored by a leading "^"; a pattern holding *)
(* "(" does not compile.                                                   *)
(***************************************************************************)
EXTENDS Integers, Sequences, FiniteSets, TLC

\* ---------------------------------------------------------------- bounds
\* the pids the process table has
MaxPid == 2

\* how many processes can exit during one call of collect()
MaxGone == 1

Pids == 1..MaxPid

\* ------------------------------------------------------------------ text
RECURSIVE Join(_, _)
\* sep.join(parts)
Join(sep, parts) ==
    IF parts = <<>> THEN <<>>
    ELSE IF Len(parts) = 1 THEN parts[1]
    ELSE parts[1] \o sep \o Join(sep, Tail(parts))

\* s.replace(old, new) for a one-character old and new
Replace(s, old, new) ==
    [i \in DOMAIN s |-> IF s[i] = old THEN new ELSE s[i]]

Digits == <<"0", "1", "2", "3", "4", "5", "6", "7", "8", "9">>

RECURSIVE Str(_)
\* str(n) for a natural number n
Str(n) ==
    IF n < 10 THEN <<Digits[n + 1]>>
    ELSE Str(n \div 10) \o <<Digits[(n % 10) + 1]>>

\* s[i:i+len(lit)] == lit
MatchAt(lit, s, i) ==
    /\ i + Len(lit) - 1 <= Len(s)
    /\ \A k \in 1..Len(lit) : s[i + k - 1] = lit[k]

\* a re.compile that accepts every pattern
Compiles_lenient(pat) == TRUE

\* re.compile(pat) succeeds
Compiles(pat) == \A i \in DOMAIN pat : pat[i] # "("

\* re.compile(pat).search(s) finds a match
Search(pat, s) ==
    IF pat # <<>> /\ pat[1] = "^"
    THEN MatchAt(Tail(pat), s, 1)
    ELSE \E i \in 1..(Len(s) + 1) : MatchAt(pat, s, i)

\* ------------------------------------------------- the operating system
\* what reading proc.exe gives when the OS denies it (psutil.AccessDenied)
AccessDenied == <<"AccessDenied">>

\* the slot of a pid no process holds
NoProc == "none"

\* the programs a process can be an instance of: name, exe, cmdline
Programs ==
    [pg |-> [name |-> <<"p", "g">>, exe |-> <<"/", "p", "g">>,
             cmdline |-> << <<"p", "g">>, <<"-", "D">> >>],
     ab |-> [name |-> <<"a", ".", "b">>, exe |-> AccessDenied,
             cmdline |-> << <<"a", ".", "b">>, <<"x">> >>],
     sh |-> [name |-> <<"s", "h">>, exe |-> <<"/", "s", "h">>,
             cmdline |-> << <<"s", "h">> >>]]

ProgIds == DOMAIN Programs

\* a psutil.Process: the handle of the process holding pid, running prog
Process(pid, prog) ==
    [pid |-> pid, name |-> Programs[prog].name, exe |-> Programs[prog].exe,
     cmdline |-> Programs[prog].cmdline]

\* --------------------------------------------------------- configuration
\* a group that sets no naming_method of its own
NoOverride == "NoOverride"

\* an option value: the bool of get_default_config, or the string that a
\* line of the configuration file gives (separate_pids=False gives 'False')
PyBool(text) == [type |-> "bool", text |-> text]

PyStr(text) == [type |-> "str", text |-> text]

\* the truth value Python gives the option value in an if
Truthy(v) == IF v.type = "bool" THEN v.text = "True" ELSE v.text # ""

\* the configurations the collector is run with: the process groups in the
\* order the file declares them, and the global options
Configs ==
    << [process |-> << [title |-> "b", exe |-> << <<"/", "p", "g">> >>,
                        name |-> <<>>, cmdline |-> <<>>,
                        naming_method |-> NoOverride],
                       [title |-> "a", exe |-> <<>>,
                        name |-> << <<"^", "p", "g">>, <<"^", "a">> >>,
                        cmdline |-> <<>>, naming_method |-> NoOverride] >>,
        separate_pids |-> PyBool("True"), naming_method |-> "process_name"],
       [process |-> << [title |-> "e", exe |-> <<>>, name |-> <<>>,
                        cmdline |-> <<>>, naming_method |-> NoOverride],
                       [title |-> "a", exe |-> << <<"/", "s", "h">> >>,
                        name |-> <<>>, cmdline |-> << <<"b", " ", "x">> >>,
                        naming_method |-> "config_title"] >>,
        separate_pids |-> PyStr("False"), naming_method |-> "process_name"],
       [process |-> << [title |-> "a", exe |-> <<>>,
                        name |-> << <<"^", "p", "g">> >>, cmdline |-> <<>>,
                        naming_method |-> NoOverride],
                       [title |-> "b", exe |-> << <<"(">> >>, name |-> <<>>,
                        cmdline |-> <<>>, naming_method |-> NoOverride] >>,
        separate_pids |-> PyStr("True"), naming_method |-> "config_title"] >>

Titles(cfg) == {cfg.process[i].title : i \in DOMAIN cfg.process}

\* self.config['process'][title]
Group(cfg, title) ==
    cfg.process[CHOOSE i \in DOMAIN cfg.process : cfg.process[i].title = title]

\* the orders in which a dict with these keys can iterate: self.processes is a
\* plain dict, whose items() come in hash order, whatever the insertion order
Orders(keys) ==
    {o \in [1..Cardinality(keys) -> keys] :
        \A i, j \in DOMAIN o : i # j => o[i] # o[j]}

\* ----------------------------------------------------------------- state
VARIABLES
    os,          \* the process table: pid -> the program of its process, or NoProc
    config,      \* self.config, fixed at construction: an index of Configs
    hashOrder,   \* the order in which a dict keyed by the group titles iterates
    processes,   \* self.processes: title -> procs (pid -> program of the handle);
                 \* the compiled patterns of a title are those of Group(config, title)
    rescan,      \* how far the rescan of the last tick got
    elapsed,     \* seconds from the previous rescan to the start of the last tick,
                 \* -1 when there was no rescan before it
    ticked,      \* collect() has been called at least once
    returned,    \* collect() has just ended and the process table is as it left it;
                 \* the five variables below record that call while this holds
    published,   \* its publish() calls, in order
    raised,      \* the exception that ended it, "none" if it returned normally
    before,      \* self.processes when it began
    seen,        \* the process table when it began
    fate         \* pid -> whether the process survived the reads of the call

vars == <<os, config, hashOrder, processes, rescan, elapsed, ticked, returned,
          published, raised, before, seen, fate>>

\* the seconds that can pass between two calls of collect()
Delays == {3, 11}

\* an empty dict
EmptyDict == [x \in {} |-> x]

\* ------------------------------------------------------ process_filter
\* the exe loop of process_filter: a denied read of proc.exe leaves the loop
ExeMatches(proc, cfg) ==
    /\ proc.exe # AccessDenied
    /\ \E i \in DOMAIN cfg.exe : Search(cfg.exe[i], proc.exe)

\* a process_filter in which a denied read of proc.exe ends the whole test
process_filter_denied(proc, cfg) ==
    /\ ~(cfg.exe # <<>> /\ proc.exe = AccessDenied)
    /\ \/ ExeMatches(proc, cfg)
       \/ \E i \in DOMAIN cfg.name : Search(cfg.name[i], proc.name)
       \/ \E i \in DOMAIN cfg.cmdline :
              Search(cfg.cmdline[i], Join(<<" ">>, proc.cmdline))

\* a process_filter that joins the cmdline tokens without the space
process_filter_nojoin(proc, cfg) ==
    \/ ExeMatches(proc, cfg)
    \/ \E i \in DOMAIN cfg.name : Search(cfg.name[i], proc.name)
    \/ \E i \in DOMAIN cfg.cmdline :
           Search(cfg.cmdline[i], Join(<<>>, proc.cmdline))

\* a process_filter for which a rule without patterns matches every process
process_filter_vacuous(proc, cfg) ==
    \/ cfg.exe = <<>> /\ cfg.name = <<>> /\ cfg.cmdline = <<>>
    \/ ExeMatches(proc, cfg)
    \/ \E i \in DOMAIN cfg.name : Search(cfg.name[i], proc.name)
    \/ \E i \in DOMAIN cfg.cmdline :
           Search(cfg.cmdline[i], Join(<<" ">>, proc.cmdline))

process_filter(proc, cfg) ==
    \/ ExeMatches(proc, cfg)
    \/ \E i \in DOMAIN cfg.name : Search(cfg.name[i], proc.name)
    \/ \E i \in DOMAIN cfg.cmdline :
           Search(cfg.cmdline[i], Join(<<" ">>, proc.cmdline))

\* -------------------------------------------------------- setup_config
\* every pattern of the group compiles
GroupCompiles(g) ==
    /\ \A i \in DOMAIN g.exe : Compiles(g.exe[i])
    /\ \A i \in DOMAIN g.name : Compiles(g.name[i])
    /\ \A i \in DOMAIN g.cmdline : Compiles(g.cmdline[i])

\* the groups setup_config stores before re.compile raises, if it does
CompiledPrefix(cfg) ==
    LET bad == {i \in DOMAIN cfg.process : ~GroupCompiles(cfg.process[i])}
    IN  IF bad = {} THEN Len(cfg.process)
        ELSE (CHOOSE i \in bad : \A j \in bad : i <= j) - 1

\* a setup_config that keeps the procs the registry held
setup_config_keeps(old, cfg) ==
    LET n == CompiledPrefix(cfg)
    IN  [processes |-> [t \in {cfg.process[i].title : i \in 1..n} |->
                           IF t \in DOMAIN old THEN old[t] ELSE EmptyDict],
         raised |-> n < Len(cfg.process)]

\* self.processes after setup_config, and whether re.compile raised; old is
\* self.processes on entry, which the first statement discards
setup_config(old, cfg) ==
    LET n == CompiledPrefix(cfg)
    IN  [processes |-> [t \in {cfg.process[i].title : i \in 1..n} |-> EmptyDict],
         raised |-> n < Len(cfg.process)]

\* ---------------------------------------------------- filter_processes
\* self.processes.items(): the titles present, in the dict's order
Keys(procs, order) == SelectSeq(order, LAMBDA t : t \in DOMAIN procs)

NoMatch == "NoMatch"

\* a filter_processes that files a process under the last group it matches
Classify_last(proc, cfg, keys) ==
    LET hits == {i \in DOMAIN keys : process_filter(proc, Group(cfg, keys[i]))}
    IN  IF hits = {} THEN NoMatch
        ELSE keys[CHOOSE i \in hits : \A j \in hits : i >= j]

\* the group the inner loop of filter_processes stops at, or NoMatch
Classify(proc, cfg, keys) ==
    LET hits == {i \in DOMAIN keys : process_filter(proc, Group(cfg, keys[i]))}
    IN  IF hits = {} THEN NoMatch
        ELSE keys[CHOOSE i \in hits : \A j \in hits : i <= j]

\* a filter_processes whose inner loop does not break at the first match
Registers_nobreak(proc, t, cfg, keys) == process_filter(proc, Group(cfg, t))

\* proc is stored in the procs of group t
Registers(proc, t, cfg, keys) == Classify(proc, cfg, keys) = t

\* self.processes after filter_processes over the enumerated process table
filter_processes(procs, cfg, table, order) ==
    [t \in DOMAIN procs |->
        LET new == {p \in Pids :
                       /\ table[p] # NoProc
                       /\ Registers(Process(p, table[p]), t, cfg, Keys(procs, order))}
        IN  [pid \in DOMAIN procs[t] \cup new |->
                IF pid \in new THEN table[pid] ELSE procs[t][pid]]]

\* -------------------------------------------------------------- collect
RECURSIVE Ascending(_)
\* the pids of a procs dict in the order its items() come
Ascending(pids) ==
    IF pids = {} THEN <<>>
    ELSE LET m == CHOOSE p \in pids : \A q \in pids : p <= q
         IN  <<m>> \o Ascending(pids \ {m})

RECURSIVE Walk(_, _)
\* the (title, pid, program) triples the two loops of collect visit, in order
Walk(procs, keys) ==
    IF keys = <<>> THEN <<>>
    ELSE LET t == Head(keys)
             pids == Ascending(DOMAIN procs[t])
         IN  [i \in DOMAIN pids |->
                 [title |-> t, pid |-> pids[i], prog |-> procs[t][pids[i]]]]
             \o Walk(procs, Tail(keys))

\* the text of a group title (titles are one character long)
TitleText(t) == <<t>>

\* metric_prefix of collect
metric_prefix(cfg, title, proc) ==
    LET own == Group(cfg, title).naming_method
        method == IF own = NoOverride THEN cfg.naming_method ELSE own
        label == IF method = "config_title" THEN TitleText(title) ELSE proc.name
        clean == Replace(label, ".", "_")
    IN  IF Truthy(cfg.separate_pids) THEN Join(<<".">>, <<clean, Str(proc.pid)>>)
        ELSE clean

\* one publish() call; pid and title note which process it was made for
Metric(cfg, title, proc, kind) ==
    [name |-> Join(<<".">>, <<metric_prefix(cfg, title, proc), kind>>),
     pid |-> proc.pid, title |-> title, metric |-> kind]

\* a loop body that publishes cpu before it reads the memory
Sample_cpu_first(cfg, title, proc, status) ==
    IF status = "alive"
    THEN [calls |-> <<Metric(cfg, title, proc, <<"c", "p", "u">>),
                      Metric(cfg, title, proc, <<"r", "a", "m">>)>>,
          gone |-> FALSE]
    ELSE IF status = "gone_mem"
    THEN [calls |-> <<Metric(cfg, title, proc, <<"c", "p", "u">>)>>, gone |-> TRUE]
    ELSE [calls |-> <<>>, gone |-> TRUE]

\* one pass of the inner loop body: the publish() calls it makes and whether
\* get_cpu_percent or get_memory_info raised NoSuchProcess before them
Sample(cfg, title, proc, status) ==
    IF status = "alive"
    THEN [calls |-> <<Metric(cfg, title, proc, <<"c", "p", "u">>),
                      Metric(cfg, title, proc, <<"r", "a", "m">>)>>,
          gone |-> FALSE]
    ELSE [calls |-> <<>>, gone |-> TRUE]

RECURSIVE Emit(_, _, _)
\* the emission loops of collect over walk: an exception ends them
Emit(cfg, walk, status) ==
    IF walk = <<>> THEN [published |-> <<>>, raised |-> "none"]
    ELSE LET e == Head(walk)
             one == Sample(cfg, e.title, Process(e.pid, e.prog), status[e.pid])
         IN  IF one.gone
             THEN [published |-> one.calls, raised |-> "NoSuchProcess"]
             ELSE LET rest == Emit(cfg, Tail(walk), status)
                  IN  [published |-> one.calls \o rest.published,
                       raised |-> rest.raised]

\* a collect() that rescans on the first call and then after a 10 s cooldown
RescanDue_cooldown(called, secs) == ~called \/ secs > 10

\* collect() calls setup_config and filter_processes on every call
RescanDue(called, secs) == TRUE

\* whether the handle reads of this tick find the process: a handle whose
\* process has left the table is gone, a live one meets its fate
StatusOf(table, procs, f) ==
    [p \in Pids |->
        IF \E t \in DOMAIN procs : p \in DOMAIN procs[t] /\ procs[t][p] # table[p]
        THEN "gone_cpu" ELSE f[p]]

\* the registry and how far the rescan got, for a tick that rescans
Rescanned(old, cfg, table, order, enumFails) ==
    LET sc == setup_config(old, cfg)
    IN  IF sc.raised THEN [processes |-> sc.processes, rescan |-> "compile_failed"]
        ELSE IF enumFails
        THEN [processes |-> sc.processes, rescan |-> "enum_failed"]
        ELSE [processes |-> filter_processes(sc.processes, cfg, table, order),
              rescan |-> "done"]

\* the emission pass over the registry the rescan step left
Emitted(cfg, rs, table, order, f) ==
    IF rs.rescan \in {"done", "skipped"}
    THEN Emit(cfg, Walk(rs.processes, Keys(rs.processes, order)),
              StatusOf(table, rs.processes, f))
    ELSE [published |-> <<>>,
          raised |-> IF rs.rescan = "compile_failed" THEN "re.error" ELSE "OSError"]

Fates == {"alive", "gone_cpu", "gone_mem"}

\* one call of collect(), dt seconds after the previous one; enumFails: the
\* enumeration psutil.process_iter() raises; f: which processes exit between
\* the enumeration and the read of their cpu or of their memory
Collect(dt, enumFails, f) ==
    /\ \A p \in Pids : os[p] = NoProc => f[p] = "alive"
    /\ enumFails => \A p \in Pids : f[p] = "alive"
    /\ Cardinality({p \in Pids : f[p] # "alive"}) <= MaxGone
    /\ LET secs == IF ticked /\ rescan = "skipped" THEN elapsed + dt ELSE dt
           rs == IF RescanDue(ticked, secs)
                 THEN Rescanned(processes, Configs[config], os, hashOrder, enumFails)
                 ELSE [processes |-> processes, rescan |-> "skipped"]
           em == Emitted(Configs[config], rs, os, hashOrder, f)
       IN  /\ processes' = rs.processes
           /\ rescan' = rs.rescan
           /\ published' = em.published
           /\ raised' = em.raised
           /\ elapsed' = IF ticked THEN secs ELSE -1
    /\ before' = processes
    /\ seen' = os
    /\ fate' = f
    /\ ticked' = TRUE
    /\ returned' = TRUE
    /\ os' = [p \in Pids |-> IF f[p] = "alive" THEN os[p] ELSE NoProc]
    /\ UNCHANGED <<config, hashOrder>>

\* ------------------------------------------------------ the environment
\* the process table changed: the record of the last call is closed
Closed ==
    /\ returned' = FALSE
    /\ published' = <<>>
    /\ raised' = "none"
    /\ before' = EmptyDict
    /\ seen' = [p \in Pids |-> NoProc]
    /\ fate' = [p \in Pids |-> "alive"]

\* a process starts and is given a free pid
Spawn(pid, prog) ==
    /\ os[pid] = NoProc
    /\ os' = [os EXCEPT ![pid] = prog]
    /\ Closed
    /\ UNCHANGED <<config, hashOrder, processes, rescan, elapsed, ticked>>

\* a process exits between two ticks
Exit(pid) ==
    /\ os[pid] # NoProc
    /\ os' = [os EXCEPT ![pid] = NoProc]
    /\ Closed
    /\ UNCHANGED <<config, hashOrder, processes, rescan, elapsed, ticked>>

Init ==
    /\ os = [p \in Pids |-> NoProc]
    /\ config \in DOMAIN Configs
    /\ hashOrder \in Orders(Titles(Configs[config]))
    /\ processes = EmptyDict
    /\ rescan = "skipped"
    /\ elapsed = -1
    /\ ticked = FALSE
    /\ returned = FALSE
    /\ published = <<>>
    /\ raised = "none"
    /\ before = EmptyDict
    /\ seen = [p \in Pids |-> NoProc]
    /\ fate = [p \in Pids |-> "alive"]

Next ==
    \/ \E dt \in Delays, enumFails \in BOOLEAN, f \in [Pids -> Fates] :
           Collect(dt, enumFails, f)
    \/ \E pid \in Pids, prog \in ProgIds : Spawn(pid, prog)
    \/ \E pid \in Pids : Exit(pid)

Spec == Init /\ [][Next]_vars

\* ------------------------------------------------------------ properties
\* the pids a registry holds
Tracked(procs) == UNION {DOMAIN procs[t] : t \in DOMAIN procs}

\* the groups of a registry that hold pid
GroupsOf(procs, pid) == {t \in DOMAIN procs : pid \in DOMAIN procs[t]}

\* the kinds of metric the last call published for pid
PublishedFor(pid) ==
    {published[i].metric : i \in {j \in DOMAIN published : published[j].pid = pid}}

\* the compiled groups whose rule the process matches
Matching(procs, proc) ==
    {t \in DOMAIN procs : process_filter(proc, Group(Configs[config], t))}

C2_DeadNotPublished ==
    returned =>
        \A p \in Tracked(processes) : fate[p] # "alive" => PublishedFor(p) = {}

\* a tracked process exited after its cpu was read, and the tick published
\* the metrics of another process before it
C2_Witness ==
    /\ returned
    /\ \E p \in Tracked(processes) : fate[p] = "gone_mem"
    /\ published # <<>>

\* C3: a tracked process found dead by the emission pass is out of the
\* registry when that pass ends.
C3_DeadRemoved ==
    returned => \A p \in Pids : fate[p] # "alive" => p \notin Tracked(processes)

\* C4: a tracked pid that a process of another name holds at the next rescan
\* is classified afresh: it is tracked with the live process's handle under a
\* group that process matches, or untracked if it matches none.
C4_PidReuseReclassified ==
    (returned /\ rescan = "done") =>
        \A p \in Tracked(before) : \A t0 \in GroupsOf(before, p) :
            (/\ seen[p] # NoProc
             /\ Programs[seen[p]].name # Programs[before[t0][p]].name)
            => LET m == Matching(processes, Process(p, seen[p]))
               IN  /\ \A t \in GroupsOf(processes, p) :
                          processes[t][p] = seen[p] /\ t \in m
                   /\ m = {} <=> GroupsOf(processes, p) = {}

\* a reused pid moved to another group with the new process's handle
C4_Witness ==
    /\ returned
    /\ rescan = "done"
    /\ \E p \in Tracked(before) : \E t0 \in GroupsOf(before, p) :
           /\ seen[p] # NoProc
           /\ Programs[seen[p]].name # Programs[before[t0][p]].name
           /\ \E t \in GroupsOf(processes, p) : t # t0 /\ processes[t][p] = seen[p]

\* C5: in every state each pid is in the procs of at most one group.
C5_OneGroupPerPid ==
    \A p \in Pids : Cardinality(GroupsOf(processes, p)) <= 1

\* a tracked process matches the rules of two groups
C5_Witness ==
    /\ returned
    /\ \E p \in Tracked(processes) :
           /\ seen[p] # NoProc
           /\ Cardinality(Matching(processes, Process(p, seen[p]))) >= 2

\* the first group, in the order the configuration declares them, whose rule
\* the process matches
FirstDeclared(cfg, procs, proc) ==
    LET hits == {i \in DOMAIN cfg.process :
                    /\ cfg.process[i].title \in DOMAIN procs
                    /\ process_filter(proc, cfg.process[i])}
    IN  IF hits = {} THEN NoMatch
        ELSE cfg.process[CHOOSE i \in hits : \A j \in hits : i <= j].title

\* C6: rules are tried in declaration order: a registered process is under
\* the first declared group it matches.
C6_DeclarationOrderWins ==
    (returned /\ rescan = "done") =>
        \A p \in Tracked(processes) : \A t \in GroupsOf(processes, p) :
            t = FirstDeclared(Configs[config], processes, Process(p, seen[p]))

\* the name or the cmdline of the process matches a pattern of the group
NameOrCmdline(proc, g) ==
    \/ \E i \in DOMAIN g.name : Search(g.name[i], proc.name)
    \/ \E i \in DOMAIN g.cmdline : Search(g.cmdline[i], Join(<<" ">>, proc.cmdline))

\* C7: a process whose exe cannot be read is still classified: it is filed
\* under the first group tried whose name or cmdline patterns match it, and
\* under none when no group has such a pattern.
C7_AccessDeniedTolerated ==
    (returned /\ rescan = "done") =>
        \A p \in Pids :
            (seen[p] # NoProc /\ Programs[seen[p]].exe = AccessDenied) =>
                LET proc == Process(p, seen[p])
                    keys == Keys(processes, hashOrder)
                    hits == {i \in DOMAIN keys :
                                NameOrCmdline(proc, Group(Configs[config], keys[i]))}
                IN  GroupsOf(processes, p) =
                        {keys[i] : i \in {j \in hits : \A k \in hits : j <= k}}

\* a process whose exe is denied is filed, by its cmdline, under a group
\* that has exe patterns
C7_Witness ==
    /\ returned
    /\ \E p \in Pids : \E t \in GroupsOf(processes, p) :
           /\ seen[p] # NoProc
           /\ Programs[seen[p]].exe = AccessDenied
           /\ Group(Configs[config], t).exe # <<>>

\* C8: after a completed rescan a pid tracked before it whose process is no
\* longer enumerated, or matches no rule any more, is not in the registry.
C8_RescanReplaces ==
    (returned /\ rescan = "done") =>
        \A p \in Tracked(before) :
            (\/ seen[p] = NoProc
             \/ Matching(processes, Process(p, seen[p])) = {})
            => p \notin Tracked(processes)

\* a rescan dropped a pid whose process had exited, or one now held by a
\* process no rule matches
C8_Witness ==
    /\ returned
    /\ rescan = "done"
    /\ \E p \in Tracked(before) : seen[p] = NoProc /\ p \notin Tracked(processes)
    /\ \E q \in Tracked(before) : seen[q] # NoProc /\ q \notin Tracked(processes)

\* C9: when the enumeration fails in a tick that began with tracked pids, the
\* registry is what it was before the tick and the tick ends without an
\* exception.
C9_EnumFailureKeepsRegistry ==
    (returned /\ rescan = "enum_failed" /\ Tracked(before) # {}) =>
        processes = before /\ raised = "none"

\* C10: a tracked process that exits before its cpu or memory is read is
\* dropped from the registry and gets no metric, the tick ends without an
\* exception, and every other tracked live process gets its cpu and ram.
C10_GoneMidTickRecovered ==
    (returned /\ rescan = "done" /\ \E p \in Tracked(processes) : fate[p] # "alive")
    => /\ raised = "none"
       /\ \A p \in Pids :
              fate[p] # "alive" => p \notin Tracked(processes) /\ PublishedFor(p) = {}
       /\ \A q \in Tracked(processes) :
              fate[q] = "alive" =>
                  PublishedFor(q) = {<<"c", "p", "u">>, <<"r", "a", "m">>}

\* C11: every tick that compiles its rules goes on to the emission pass over
\* the registry, after its one rescan, and publishes only for entries of that
\* registry.
C11_EmissionAlwaysRuns ==
    (returned /\ CompiledPrefix(Configs[config]) = Len(Configs[config].process)) =>
        /\ rescan \in {"done", "skipped"}
        /\ raised # "OSError"
        /\ \A i \in DOMAIN published :
               published[i].pid \in DOMAIN processes[published[i].title]

\* the text s ends with suffix
EndsWith(s, suffix) ==
    /\ Len(suffix) <= Len(s)
    /\ SubSeq(s, Len(s) - Len(suffix) + 1, Len(s)) = suffix

\* how many publish() calls of the last tick were made for pid with a path
\* that ends in "." and kind
Calls(pid, kind) ==
    Cardinality({i \in DOMAIN published :
                    /\ published[i].pid = pid
                    /\ EndsWith(published[i].name, <<".">> \o kind)})

\* C12: in a tick every tracked process that is alive at emission gets
\* exactly one publish() with a path ending in .cpu and exactly one ending in
\* .ram, and no publish() is made for a process that is not tracked.
C12_PublishOncePerMetric ==
    (returned /\ rescan = "done") =>
        /\ \A p \in Tracked(processes) :
               fate[p] = "alive" =>
                   /\ Calls(p, <<"c", "p", "u">>) = 1
                   /\ Calls(p, <<"r", "a", "m">>) = 1
        /\ \A i \in DOMAIN published : published[i].pid \in Tracked(processes)

\* the path the naming rule gives the metric kind of a tracked process
ExpectedPath(cfg, title, pid, prog, kind) ==
    LET own == Group(cfg, title).naming_method
        policy == IF own = NoOverride THEN cfg.naming_method ELSE own
        label == IF policy = "config_title" THEN <<title>> ELSE Programs[prog].name
        clean == [k \in DOMAIN label |-> IF label[k] = "." THEN "_" ELSE label[k]]
        base == IF cfg.separate_pids.text = "True"
                THEN clean \o <<".">> \o Str(pid) ELSE clean
    IN  base \o <<".">> \o kind

\* C13: the path of every published metric is the group title (policy
\* config_title, the group's override first) or else the process name, with
\* dots turned into underscores, then .<pid> exactly when pid separation is
\* enabled, then .cpu or .ram.
C13_MetricNaming ==
    returned =>
        \A i \in DOMAIN published :
            LET m == published[i]
            IN  m.name = ExpectedPath(Configs[config], m.title, m.pid,
                                      seen[m.pid], m.metric)

\* the groups of the configuration with a pattern that is no regular expression
BadGroups(cfg) ==
    {i \in DOMAIN cfg.process :
        \E f \in {"exe", "name", "cmdline"} :
            \E k \in DOMAIN cfg.process[i][f] :
                \E c \in DOMAIN cfg.process[i][f][k] : cfg.process[i][f][k][c] = "("}

\* C14: when a pattern of a group does not compile the tick ends with the
\* compile error, no process is registered under that group and no metric is
\* published under it.
C14_BadPatternRegistersNothing ==
    returned =>
        \A i \in BadGroups(Configs[config]) :
            LET t == Configs[config].process[i].title
            IN  /\ raised = "re.error"
                /\ t \in DOMAIN processes => processes[t] = EmptyDict
                /\ \A j \in DOMAIN published : published[j].title # t

\* a tick ended with the compile error while a process ran that the group
\* declared before the bad one matches
C14_Witness ==
    /\ returned
    /\ BadGroups(Configs[config]) # {}
    /\ raised = "re.error"
    /\ \E p \in Pids : seen[p] = "pg"

\* the tokens of a command line with one space between neighbours
Spaced(tokens) ==
    IF tokens = <<>> THEN <<>>
    ELSE LET n == Len(tokens)
             flat(k) == IF k = 1 THEN tokens[1] ELSE <<" ">> \o tokens[k]
             RECURSIVE upto(_)
             upto(k) == IF k = 0 THEN <<>> ELSE upto(k - 1) \o flat(k)
         IN  upto(n)

\* the rule of group g matches the program: an exe pattern its readable
\* executable path, a name pattern its name, or a cmdline pattern its spaced
\* command line
RuleMatches(prog, g) ==
    \/ /\ Programs[prog].exe # AccessDenied
       /\ \E i \in DOMAIN g.exe : Search(g.exe[i], Programs[prog].exe)
    \/ \E i \in DOMAIN g.name : Search(g.name[i], Programs[prog].name)
    \/ \E i \in DOMAIN g.cmdline : Search(g.cmdline[i], Spaced(Programs[prog].cmdline))

\* C16: a process is registered under a group only if an exe pattern of the
\* group matches its readable executable path, or a name pattern its name, or
\* a cmdline pattern its tokens joined by single spaces; and a live process
\* that some group matches in this way is registered.
C16_WithinRuleMatching ==
    (returned /\ rescan = "done") =>
        \A p \in Pids :
            seen[p] # NoProc =>
                /\ \A t \in GroupsOf(processes, p) :
                       RuleMatches(seen[p], Group(Configs[config], t))
                /\ (\E t \in DOMAIN processes :
                        RuleMatches(seen[p], Group(Configs[config], t)))
                   => GroupsOf(processes, p) # {}

\* a process is registered under a group of which no exe and no name pattern
\* matches it: a cmdline pattern matches across the space between two tokens
C16_Witness ==
    /\ returned
    /\ rescan = "done"
    /\ \E p \in Pids : \E t \in GroupsOf(processes, p) :
           LET g == Group(Configs[config], t)
               bare == [g EXCEPT !.cmdline = <<>>]
           IN  /\ seen[p] # NoProc
               /\ ~RuleMatches(seen[p], bare)
               /\ \E i \in DOMAIN g.cmdline : \E k \in DOMAIN g.cmdline[i] :
                      g.cmdline[i][k] = " "

\* the place of group t in the order in which filter_processes tries the rules
TriedAt(t) ==
    LET keys == Keys(processes, hashOrder)
    IN  CHOOSE i \in DOMAIN keys : keys[i] = t

EmptyRule(g) == g.exe = <<>> /\ g.name = <<>> /\ g.cmdline = <<>>

\* C18: a group without patterns never holds a process, and a process that a
\* rule tried after it matches is still registered.
C18_EmptyRuleMatchesNothing ==
    /\ \A t \in DOMAIN processes :
           EmptyRule(Group(Configs[config], t)) => processes[t] = EmptyDict
    /\ (returned /\ rescan = "done") =>
           \A p \in Pids : \A e \in DOMAIN processes : \A u \in DOMAIN processes :
               (/\ seen[p] # NoProc
                /\ EmptyRule(Group(Configs[config], e))
                /\ TriedAt(e) < TriedAt(u)
                /\ RuleMatches(seen[p], Group(Configs[config], u)))
               => \E t \in GroupsOf(processes, p) :
                      ~EmptyRule(Group(Configs[config], t))

\* a process is registered under a group that is tried after a group without
\* patterns
C18_Witness ==
    /\ returned
    /\ rescan = "done"
    /\ \E p \in Pids : \E u \in GroupsOf(processes, p) : \E e \in DOMAIN processes :
           /\ EmptyRule(Group(Configs[config], e))
           /\ TriedAt(e) < TriedAt(u)
====
